---- MODULE Spec2Model ----
(***************************************************************************)
(* A model of the paper knowledge base: the ontology file and its two      *)
(* loaders (graph.py load_existing_ontologies / save_ontologies and        *)
(* query.py KnowledgeGraphQuery.load_ontologies), the graph index          *)
(* (build_graph, get_graph_statistics) and the query layer.                *)
(*                                                                         *)
(* Python strings are tuples of one-character strings, so that lower(),    *)
(* the substring test and f-string concatenation are computed.  A file is  *)
(* a tuple of tokens: punctuation, whitespace ("NL", "SP"), scalar         *)
(* literals, the member text of an object, and text that is no JSON.       *)
(* JSON values are tagged: [obj |-> members], [arr |-> elements],          *)
(* [num |-> n], [str |-> chars].                                           *)
(***************************************************************************)
EXTENDS Integers, Sequences, FiniteSets, TLC

\* Bounds of the model.
MaxLines == 3
MaxRecords == 3

-----------------------------------------------------------------------------
(* Python str operations *)

UpperToLower ==
  [A |-> "a", B |-> "b", C |-> "c", D |-> "d", E |-> "e", F |-> "f", G |-> "g",
   H |-> "h", I |-> "i", J |-> "j", K |-> "k", L |-> "l", M |-> "m", N |-> "n",
   O |-> "o", P |-> "p", Q |-> "q", R |-> "r", S |-> "s", T |-> "t", U |-> "u",
   V |-> "v", W |-> "w", X |-> "x", Y |-> "y", Z |-> "z"]

\* str.lower()
Lower(s) ==
  [i \in 1..Len(s) |-> IF s[i] \in DOMAIN UpperToLower THEN UpperToLower[s[i]] ELSE s[i]]

\* sub in s, for two strings
Contains(sub, s) ==
  \E i \in 0..(Len(s) - Len(sub)) : SubSeq(s, i + 1, i + Len(sub)) = sub

\* x in xs, for a list xs
InList(x, xs) == \E i \in 1..Len(xs) : xs[i] = x

RECURSIVE Concat(_)
\* the concatenation of a list of lists
Concat(ss) == IF ss = <<>> THEN <<>> ELSE Head(ss) \o Concat(Tail(ss))

\* dict.get(key, default)
Get(d, key, default) == IF key \in DOMAIN d THEN d[key] ELSE default

ErrorKey == <<"e", "r", "r", "o", "r">>

-----------------------------------------------------------------------------
(* The text of a JSON document *)

IsWs(tok) == tok \in {"NL", "SP"}

\* The scalar literals of the model and the values json.loads gives them.
Scalars ==
  ("7" :> [num |-> 7]) @@
  ("s_err" :> [str |-> <<"a", " ">> \o ErrorKey])

\* The names the records of the model use.
Transformer == <<"T", "r", "a", "n", "s", "f", "o", "r", "m", "e", "r">>
TRANSFORMER == <<"T", "R", "A", "N", "S", "F", "O", "R", "M", "E", "R">>
TransformerArchitecture ==
  Transformer \o <<" ", "A", "r", "c", "h", "i", "t", "e", "c", "t", "u", "r", "e">>
LSTM == <<"L", "S", "T", "M">>
Attn == <<"A", "t", "t", "n">>
BLEU == <<"B", "L", "E", "U">>
BleuScore == <<"b", "l", "e", "u", " ", "s", "c", "o", "r", "e">>
Accuracy == <<"a", "c", "c">>
Translation == <<"t", "r", "a", "n", "s", "l", "a", "t", "i", "o", "n">>
NLP == <<"N", "L", "P">>
GNMT == <<"G", "N", "M", "T">>
Attention == <<"A", "t", "t", "e", "n", "t", "i", "o", "n">>
BERT == <<"B", "E", "R", "T">>

\* The member texts of the objects of the model and the dict each stands for.
PaperA == [title |-> <<"A">>, year |-> "2016", authors |-> <<"Wu">>]
PaperB == [title |-> <<"B">>, year |-> "2017", authors |-> <<"Vaswani", "Shazeer">>]
PaperX == [title |-> <<"x">>, year |-> "2018", authors |-> <<>>]
PaperD == [title |-> <<"D">>, year |-> "2019", authors |-> <<"Doe">>]

Members ==
  [mA |-> [paper |-> PaperA,
           techniques |-> <<[name |-> <<"x">>, type |-> "architecture"],
                            [name |-> <<"y">>, type |-> "training"]>>,
           results |-> <<[metric |-> <<"m">>, value |-> <<"1">>]>>,
           applications |-> <<[domain |-> <<"d">>, purpose |-> <<"p">>]>>,
           relationships |-> <<[subject |-> <<"A">>, predicate |-> "USES", object |-> <<"x">>]>>],
   mB |-> [paper |-> PaperB,
           techniques |-> <<[name |-> <<"x">>, type |-> "architecture"],
                            [name |-> <<"z">>, type |-> "optimization"]>>,
           results |-> <<[metric |-> <<"m">>, value |-> <<"1">>]>>,
           relationships |-> <<[subject |-> <<"x">>, predicate |-> "LEADS_TO", object |-> <<"q">>]>>],
   mC |-> [paper |-> PaperX,
           techniques |-> <<[name |-> <<"y">>, type |-> "training"],
                            [name |-> <<"y">>, type |-> "training"]>>,
           applications |-> <<[domain |-> <<"d">>, purpose |-> <<"p">>]>>],
   mErr |-> [error |-> "Failed to parse JSON from the model response.",
             raw_response |-> "not json"],
   mBadTech |-> [paper |-> PaperD,
                 techniques |-> <<[type |-> "architecture"]>>],
   qGnmt |-> [paper |-> [title |-> GNMT, year |-> "2016", authors |-> <<"Wu", "Schuster">>],
              techniques |-> <<[name |-> LSTM, type |-> "architecture"],
                               [name |-> Attn, type |-> "architecture"]>>,
              results |-> <<[metric |-> BLEU, value |-> <<"2", "4", ".", "6">>]>>,
              applications |-> <<[domain |-> Translation, purpose |-> <<"m", "t">>]>>],
   qAttn |-> [paper |-> [title |-> Attention, year |-> "2017", authors |-> <<"Vaswani">>],
              techniques |-> <<[name |-> TransformerArchitecture, type |-> "architecture"],
                               [name |-> Attn, type |-> "architecture"]>>,
              results |-> <<[metric |-> BLEU, value |-> <<"2", "8", ".", "4">>],
                            [metric |-> BleuScore, value |-> <<"N", "/", "A">>]>>,
              applications |-> <<[domain |-> Translation, purpose |-> <<"m", "t">>]>>],
   qBert |-> [paper |-> [title |-> BERT, year |-> "2018", authors |-> <<"Devlin">>],
              techniques |-> <<[name |-> Lower(Transformer), type |-> "architecture"],
                               [name |-> Transformer, type |-> "architecture"]>>,
              results |-> <<[metric |-> BleuScore, value |-> <<"2", "8", ".", "4", "0">>]>>,
              applications |-> <<[domain |-> NLP, purpose |-> <<"q", "a">>],
                                 [domain |-> Translation, purpose |-> <<"m", "t">>]>>],
   qGnmt2 |-> [paper |-> [title |-> Lower(GNMT) \o <<" ", "v", "2">>, year |-> "2019",
                          authors |-> <<"Wu">>],
               techniques |-> <<[name |-> LSTM, type |-> "architecture"],
                                [name |-> LSTM, type |-> "training"]>>,
               results |-> <<[metric |-> Accuracy, value |-> <<"9">>]>>],
   qNoTitle |-> [paper |-> [year |-> "2020", authors |-> <<"Doe">>],
                 techniques |-> <<[name |-> LSTM, type |-> "architecture"]>>],
   qBert2 |-> [paper |-> [title |-> BERT, year |-> "2019", authors |-> <<"Devlin">>],
               techniques |-> <<[name |-> TRANSFORMER, type |-> "architecture"]>>,
               results |-> <<[metric |-> BLEU, value |-> <<"2", "8", ".", "4">>]>>,
               applications |-> <<[domain |-> NLP, purpose |-> <<"q", "a">>]>>]]

MemberTokens == DOMAIN Members

\* The index of the first token at or after i that is no whitespace (Len + 1 if none).
SkipWs(ts, i) ==
  IF \E j \in i..Len(ts) : ~IsWs(ts[j])
  THEN CHOOSE j \in i..Len(ts) : ~IsWs(ts[j]) /\ \A k \in i..(j - 1) : IsWs(ts[k])
  ELSE Len(ts) + 1

Failed == [ok |-> FALSE]

RECURSIVE ParseValue(_, _)
RECURSIVE ParseElements(_, _, _)
\* json's scanner on the value that starts at token i: [ok, val, next]
ParseValue(ts, i) ==
  IF i > Len(ts) THEN Failed
  ELSE IF ts[i] \in DOMAIN Scalars
    THEN [ok |-> TRUE, val |-> Scalars[ts[i]], next |-> i + 1]
  ELSE IF ts[i] = "{"
    THEN LET j == SkipWs(ts, i + 1) IN
         IF j > Len(ts) THEN Failed
         ELSE IF ts[j] = "}"
           THEN [ok |-> TRUE, val |-> [obj |-> <<>>], next |-> j + 1]
         ELSE IF ts[j] \in MemberTokens
           THEN LET k == SkipWs(ts, j + 1) IN
                IF k <= Len(ts) /\ ts[k] = "}"
                THEN [ok |-> TRUE, val |-> [obj |-> Members[ts[j]]], next |-> k + 1]
                ELSE Failed
         ELSE Failed
  ELSE IF ts[i] = "["
    THEN LET j == SkipWs(ts, i + 1) IN
         IF j > Len(ts) THEN Failed
         ELSE IF ts[j] = "]"
           THEN [ok |-> TRUE, val |-> [arr |-> <<>>], next |-> j + 1]
         ELSE ParseElements(ts, j, <<>>)
  ELSE Failed

\* the elements of an array from token i on, acc being those already read
ParseElements(ts, i, acc) ==
  LET r == ParseValue(ts, i) IN
  IF ~r.ok THEN Failed
  ELSE LET j == SkipWs(ts, r.next) IN
       IF j > Len(ts) THEN Failed
       ELSE IF ts[j] = ","
         THEN ParseElements(ts, SkipWs(ts, j + 1), Append(acc, r.val))
       ELSE IF ts[j] = "]"
         THEN [ok |-> TRUE, val |-> [arr |-> Append(acc, r.val)], next |-> j + 1]
       ELSE Failed

\* json.loads(text): [ok |-> FALSE] stands for JSONDecodeError
JsonLoads(ts) ==
  LET r == ParseValue(ts, SkipWs(ts, 1)) IN
  IF r.ok /\ SkipWs(ts, r.next) > Len(ts) THEN [ok |-> TRUE, val |-> r.val] ELSE Failed

\* str.strip()
Strip(ts) ==
  IF \A i \in 1..Len(ts) : IsWs(ts[i]) THEN <<>>
  ELSE LET first == SkipWs(ts, 1)
           last == CHOOSE j \in 1..Len(ts) :
                     ~IsWs(ts[j]) /\ \A k \in (j + 1)..Len(ts) : IsWs(ts[k])
       IN SubSeq(ts, first, last)

RECURSIVE Split(_)
\* str.split('\n')
Split(ts) ==
  IF \A i \in 1..Len(ts) : ts[i] # "NL" THEN <<ts>>
  ELSE LET n == CHOOSE i \in 1..Len(ts) : ts[i] = "NL" /\ \A k \in 1..(i - 1) : ts[k] # "NL"
       IN <<SubSeq(ts, 1, n - 1)>> \o Split(SubSeq(ts, n + 1, Len(ts)))

\* [line.strip() for line in content.split('\n') if line.strip()]
NonBlankLines(content) ==
  LET all == Split(content)
      stripped == [i \in 1..Len(all) |-> Strip(all[i])]
  IN SelectSeq(stripped, LAMBDA l : l # <<>>)

RECURSIVE Indent(_)
Indent(n) == IF n = 0 THEN <<>> ELSE <<"SP">> \o Indent(n - 1)

RECURSIVE Dump(_, _)
RECURSIVE DumpElements(_, _)
\* json.dump(value, f, indent=2) at nesting depth d
Dump(v, d) ==
  IF "arr" \in DOMAIN v
  THEN IF v.arr = <<>> THEN <<"[", "]">>
       ELSE <<"[", "NL">> \o DumpElements(v.arr, d + 1) \o <<"NL">> \o Indent(d) \o <<"]">>
  ELSE IF "obj" \in DOMAIN v
  THEN IF DOMAIN v.obj = {} THEN <<"{", "}">>
       ELSE <<"{", "NL">> \o Indent(d + 1)
            \o <<CHOOSE m \in MemberTokens : Members[m] = v.obj>>
            \o <<"NL">> \o Indent(d) \o <<"}">>
  ELSE <<CHOOSE s \in DOMAIN Scalars : Scalars[s] = v>>

DumpElements(vs, d) ==
  Indent(d) \o Dump(Head(vs), d)
  \o (IF Len(vs) = 1 THEN <<>> ELSE <<",", "NL">> \o DumpElements(Tail(vs), d))

-----------------------------------------------------------------------------
(* graph.py: the record store *)

RECURSIVE JsonLinesExistingBreak(_)
\* variant (not the code): the per-line fallback gives up at the first malformed line
JsonLinesExistingBreak(lines) ==
  IF lines = <<>> THEN <<>>
  ELSE LET r == JsonLoads(Head(lines)) IN
       IF r.ok THEN <<r.val>> \o JsonLinesExistingBreak(Tail(lines)) ELSE <<>>

RECURSIVE JsonLinesExisting(_)
\* the per-line fallback of load_existing_ontologies
JsonLinesExisting(lines) ==
  IF lines = <<>> THEN <<>>
  ELSE LET r == JsonLoads(Head(lines)) IN
       (IF r.ok THEN <<r.val>> ELSE <<>>) \o JsonLinesExisting(Tail(lines))

\* variant (not the code): a value that is no list is not wrapped but dropped
load_existing_ontologies_unwrapped(f) ==
  IF "missing" \in DOMAIN f THEN <<>>
  ELSE LET content == Strip(f.content) IN
       IF content = <<>> THEN <<>>
       ELSE LET data == JsonLoads(content) IN
            IF data.ok
            THEN IF "arr" \in DOMAIN data.val THEN data.val.arr ELSE <<>>
            ELSE JsonLinesExisting(NonBlankLines(content))

\* load_existing_ontologies(json_file): the list it returns
load_existing_ontologies(f) ==
  IF "missing" \in DOMAIN f THEN <<>>
  ELSE LET content == Strip(f.content) IN
       IF content = <<>> THEN <<>>
       ELSE LET data == JsonLoads(content) IN
            IF data.ok
            THEN IF "arr" \in DOMAIN data.val THEN data.val.arr ELSE <<data.val>>
            ELSE JsonLinesExisting(NonBlankLines(content))

\* variant (not the code): only the newest record is written
save_ontologies_last(ontologies) ==
  [content |-> Dump([arr |-> <<ontologies[Len(ontologies)]>>], 0)]

\* save_ontologies(ontologies, json_file): the file it writes
save_ontologies(ontologies) == [content |-> Dump([arr |-> ontologies], 0)]

\* extract_ontology_from_pdf's except branch: the record of a failed extraction
FailedExtraction == [obj |-> Members.mErr]

-----------------------------------------------------------------------------
(* query.py: KnowledgeGraphQuery *)

RECURSIVE JsonLinesQuery(_)
\* the per-line fallback of load_ontologies
JsonLinesQuery(lines) ==
  IF lines = <<>> THEN <<>>
  ELSE LET r == JsonLoads(Head(lines)) IN
       (IF r.ok THEN <<r.val>> ELSE <<>>) \o JsonLinesQuery(Tail(lines))

\* the local `ontologies` of load_ontologies when the filter loop starts
ParsedOntologies(f) ==
  IF "missing" \in DOMAIN f THEN <<>>
  ELSE LET content == Strip(f.content) IN
       IF content = <<>> THEN <<>>
       ELSE LET data == JsonLoads(content) IN
            IF data.ok
            THEN IF "arr" \in DOMAIN data.val THEN data.val.arr ELSE <<data.val>>
            ELSE JsonLinesQuery(NonBlankLines(content))

\* variant (not the code): the error filter lets every entry through
ErrorInNever(v) ==
  IF DOMAIN v \cap {"obj", "arr", "str"} # {} THEN [raised |-> "none", is |-> FALSE]
  ELSE [raised |-> "TypeError", is |-> FALSE]

\* "error" in ontology: a key test on a dict, an element test on a list, a
\* substring test on a str, and TypeError on a number.
ErrorIn(v) ==
  IF "obj" \in DOMAIN v THEN [raised |-> "none", is |-> "error" \in DOMAIN v.obj]
  ELSE IF "arr" \in DOMAIN v THEN [raised |-> "none", is |-> InList([str |-> ErrorKey], v.arr)]
  ELSE IF "str" \in DOMAIN v THEN [raised |-> "none", is |-> Contains(ErrorKey, v.str)]
  ELSE [raised |-> "TypeError", is |-> FALSE]

RECURSIVE FilterErrors(_, _)
\* the loop `for ontology in ontologies: if "error" not in ontology: append`
FilterErrors(ontologies, acc) ==
  IF ontologies = <<>> THEN [raised |-> "none", papers_data |-> acc]
  ELSE LET e == ErrorIn(Head(ontologies)) IN
       IF e.raised # "none" THEN [raised |-> e.raised, papers_data |-> acc]
       ELSE FilterErrors(Tail(ontologies), IF e.is THEN acc ELSE Append(acc, Head(ontologies)))

\* variant (not the code): FileNotFoundError is not caught
load_ontologies_uncaught(f) ==
  IF "missing" \in DOMAIN f THEN [raised |-> "FileNotFoundError", papers_data |-> <<>>]
  ELSE FilterErrors(ParsedOntologies(f), <<>>)

\* load_ontologies(): papers_data when it returns or raises
load_ontologies(f) == FilterErrors(ParsedOntologies(f), <<>>)

UnknownPaper == <<"U", "n", "k", "n", "o", "w", "n", " ", "P", "a", "p", "e", "r">>

EmptyGraph == [raised |-> "none", nodes |-> <<>>, edges |-> <<>>]

Raise(g, exc) == [g EXCEPT !.raised = exc]

\* DiGraph.add_node(n, **attrs): the attributes given replace those of the same key
add_node(g, n, attrs) ==
  [g EXCEPT !.nodes = (n :> (attrs @@ Get(g.nodes, n, <<>>))) @@ g.nodes]

\* variant (not the code): a multigraph, every call adds an edge of its own
add_edge_parallel(g, u, v, label) ==
  LET withU == IF u \in DOMAIN g.nodes THEN g ELSE add_node(g, u, <<>>)
      withV == IF v \in DOMAIN withU.nodes THEN withU ELSE add_node(withU, v, <<>>)
  IN [withV EXCEPT !.edges =
        (<<u, v, Cardinality(DOMAIN withV.edges)>> :> [relationship |-> label]) @@ withV.edges]

\* DiGraph.add_edge(u, v, relationship=label): one edge per ordered pair
add_edge(g, u, v, label) ==
  LET withU == IF u \in DOMAIN g.nodes THEN g ELSE add_node(g, u, <<>>)
      withV == IF v \in DOMAIN withU.nodes THEN withU ELSE add_node(withU, v, <<>>)
  IN [withV EXCEPT !.edges = (<<u, v>> :> [relationship |-> label]) @@ withV.edges]

HasKeys(item, keys) == keys \subseteq DOMAIN item

\* one iteration of one of build_graph's four inner loops
AddItem(g, paper_title, item, kind) ==
  IF kind = "technique"
  THEN IF ~HasKeys(item, {"name"}) THEN Raise(g, "KeyError")
       ELSE add_edge(add_node(g, item.name, [type |-> "technique", data |-> item]),
                     paper_title, item.name, "USES")
  ELSE IF kind = "result"
  THEN IF ~HasKeys(item, {"metric", "value"}) THEN Raise(g, "KeyError")
       ELSE LET result_name == item.metric \o <<":", " ">> \o item.value IN
            add_edge(add_node(g, result_name, [type |-> "result", data |-> item]),
                     paper_title, result_name, "REPORTS")
  ELSE IF kind = "application"
  THEN IF ~HasKeys(item, {"domain", "purpose"}) THEN Raise(g, "KeyError")
       ELSE LET app_name == item.domain \o <<" ", "-", " ">> \o item.purpose IN
            add_edge(add_node(g, app_name, [type |-> "application", data |-> item]),
                     paper_title, app_name, "ADDRESSES")
  ELSE IF ~HasKeys(item, {"subject", "predicate", "object"}) THEN Raise(g, "KeyError")
       ELSE add_edge(g, item.subject, item.object, item.predicate)

RECURSIVE AddItems(_, _, _, _)
AddItems(g, paper_title, items, kind) ==
  IF g.raised # "none" \/ items = <<>> THEN g
  ELSE AddItems(AddItem(g, paper_title, Head(items), kind), paper_title, Tail(items), kind)

\* the body of build_graph's outer loop for one entry of papers_data
AddPaper(g, entry) ==
  IF "obj" \notin DOMAIN entry THEN Raise(g, "AttributeError")
  ELSE LET paper_data == entry.obj
           paper_title == Get(Get(paper_data, "paper", <<>>), "title", UnknownPaper)
       IN IF "paper" \notin DOMAIN paper_data THEN Raise(g, "KeyError")
          ELSE LET g0 == add_node(g, paper_title, [type |-> "paper", data |-> paper_data.paper])
                   g1 == AddItems(g0, paper_title, Get(paper_data, "techniques", <<>>), "technique")
                   g2 == AddItems(g1, paper_title, Get(paper_data, "results", <<>>), "result")
                   g3 == AddItems(g2, paper_title, Get(paper_data, "applications", <<>>), "application")
               IN AddItems(g3, paper_title, Get(paper_data, "relationships", <<>>), "relationship")

RECURSIVE BuildFrom(_, _)
BuildFrom(g, papers) ==
  IF g.raised # "none" \/ papers = <<>> THEN g
  ELSE BuildFrom(AddPaper(g, Head(papers)), Tail(papers))

\* build_graph(): the graph when it returns or raises
build_graph(papers_data) == BuildFrom(EmptyGraph, papers_data)

NodesOfType(nodes, t) == {n \in DOMAIN nodes : Get(nodes[n], "type", "None") = t}

\* variant (not the code): total_papers counts the paper nodes, not the records
get_graph_statistics_nodes(k) ==
  [total_papers |-> Cardinality(NodesOfType(k.nodes, "paper")),
   total_nodes |-> Cardinality(DOMAIN k.nodes),
   total_edges |-> Cardinality(DOMAIN k.edges),
   node_types |-> [paper |-> Cardinality(NodesOfType(k.nodes, "paper")),
                   technique |-> Cardinality(NodesOfType(k.nodes, "technique")),
                   result |-> Cardinality(NodesOfType(k.nodes, "result")),
                   application |-> Cardinality(NodesOfType(k.nodes, "application"))]]

\* get_graph_statistics()
get_graph_statistics(k) ==
  [total_papers |-> Len(k.papers_data),
   total_nodes |-> Cardinality(DOMAIN k.nodes),
   total_edges |-> Cardinality(DOMAIN k.edges),
   node_types |-> [paper |-> Cardinality(NodesOfType(k.nodes, "paper")),
                   technique |-> Cardinality(NodesOfType(k.nodes, "technique")),
                   result |-> Cardinality(NodesOfType(k.nodes, "result")),
                   application |-> Cardinality(NodesOfType(k.nodes, "application"))]]

\* KnowledgeGraphQuery(ontology_file): __init__ runs load_ontologies, then build_graph
KnowledgeGraphQuery(f) ==
  LET loaded == load_ontologies(f) IN
  IF loaded.raised # "none"
  THEN [status |-> "raised", error |-> loaded.raised, at |-> "load_ontologies",
        papers_data |-> loaded.papers_data, nodes |-> <<>>, edges |-> <<>>]
  ELSE LET g == build_graph(loaded.papers_data) IN
       [status |-> IF g.raised = "none" THEN "ready" ELSE "raised",
        error |-> g.raised, at |-> IF g.raised = "none" THEN "none" ELSE "build_graph",
        papers_data |-> loaded.papers_data, nodes |-> g.nodes, edges |-> g.edges]

-----------------------------------------------------------------------------
(* query.py: the query layer *)

Digits ==
  ("0" :> 0) @@ ("1" :> 1) @@ ("2" :> 2) @@ ("3" :> 3) @@ ("4" :> 4) @@
  ("5" :> 5) @@ ("6" :> 6) @@ ("7" :> 7) @@ ("8" :> 8) @@ ("9" :> 9)

\* The decimal places the model keeps of a float: values are in hundredths.
FracDigits == 2

RECURSIVE DigitsValue(_)
DigitsValue(s) == IF s = <<>> THEN 0 ELSE DigitsValue(SubSeq(s, 1, Len(s) - 1)) * 10 + Digits[s[Len(s)]]

RECURSIVE Pow10(_)
Pow10(n) == IF n = 0 THEN 1 ELSE 10 * Pow10(n - 1)

\* float(text) for text of digits with at most one point: [ok, val], val in
\* hundredths; anything else is ValueError
Float(s) ==
  LET points == {i \in 1..Len(s) : s[i] = "."}
      digits == {i \in 1..Len(s) : s[i] \in DOMAIN Digits}
  IN IF digits = {} \/ Cardinality(points) > 1 \/ points \cup digits # 1..Len(s)
     THEN [ok |-> FALSE, val |-> 0]
     ELSE LET p == IF points = {} THEN Len(s) + 1 ELSE CHOOSE i \in points : TRUE
              whole == SubSeq(s, 1, p - 1)
              frac == SubSeq(s, p + 1, Len(s))
          IN IF Len(frac) > FracDigits THEN [ok |-> FALSE, val |-> 0]
             ELSE [ok |-> TRUE,
                   val |-> DigitsValue(whole) * Pow10(FracDigits)
                           + DigitsValue(frac) * Pow10(FracDigits - Len(frac))]

RECURSIVE SortedIndices(_, _)
\* the positions 1..n ordered by key descending, equal keys in position order:
\* what list.sort(key=..., reverse=True) does with the keys it computed
SortedIndices(keys, n) ==
  IF n = 0 THEN <<>>
  ELSE LET prev == SortedIndices(keys, n - 1)
           pos == Cardinality({i \in 1..(n - 1) : keys[prev[i]] >= keys[n]})
       IN SubSeq(prev, 1, pos) \o <<n>> \o SubSeq(prev, pos + 1, n - 1)

\* sorted(items, key=..., reverse=True), keys[i] being the key of items[i]
SortedDescending(items, keys) ==
  LET order == SortedIndices(keys, Len(items)) IN
  [i \in 1..Len(items) |-> items[order[i]]]

Names(items, key) == [i \in 1..Len(items) |-> items[i][key]]

\* variant (not the code): the argument need only be contained in a technique's name
TechniqueMatchesSubstring(technique_name, techniques) ==
  \E i \in 1..Len(techniques) : Contains(Lower(technique_name), Lower(techniques[i]))

\* variant (not the code): the comparison keeps the letter case
TechniqueMatchesCaseSensitive(technique_name, techniques) ==
  InList(technique_name, techniques)

\* technique_name.lower() in [t.lower() for t in techniques]
TechniqueMatches(technique_name, techniques) ==
  InList(Lower(technique_name), [i \in 1..Len(techniques) |-> Lower(techniques[i])])

RECURSIVE TechniqueScan(_, _, _)
\* the loop of query_by_technique over the records not yet seen
TechniqueScan(papers, technique_name, results) ==
  IF papers = <<>> \/ results.raised # "none" THEN results
  ELSE LET paper_data == Head(papers).obj
           techniques == Names(Get(paper_data, "techniques", <<>>), "name")
       IN IF ~TechniqueMatches(technique_name, techniques)
          THEN TechniqueScan(Tail(papers), technique_name, results)
          ELSE IF ~HasKeys(paper_data.paper, {"title", "year", "authors"})
          THEN Raise(results, "KeyError")
          ELSE TechniqueScan(Tail(papers), technique_name,
                 [results EXCEPT
                    !.papers = Append(@, [title |-> paper_data.paper.title,
                                          year |-> paper_data.paper.year,
                                          authors |-> paper_data.paper.authors]),
                    !.applications = @ \o Get(paper_data, "applications", <<>>),
                    !.results = @ \o Get(paper_data, "results", <<>>)])

\* query_by_technique(technique_name)
query_by_technique(papers_data, technique_name) ==
  TechniqueScan(papers_data, technique_name,
    [raised |-> "none", technique |-> technique_name,
     papers |-> <<>>, applications |-> <<>>, results |-> <<>>])

\* variant (not the code): the argument must be the whole domain
DomainMatchesWhole(domain, app_domain) == Lower(domain) = Lower(app_domain)

\* domain.lower() in app["domain"].lower()
DomainMatches(domain, app_domain) == Contains(Lower(domain), Lower(app_domain))

RECURSIVE ApplicationMatches(_, _, _, _)
\* the inner loop of query_by_application over one record's applications
ApplicationMatches(paper_data, applications, domain, results) ==
  IF applications = <<>> \/ results.raised # "none" THEN results
  ELSE LET app == Head(applications) IN
       IF ~HasKeys(app, {"domain"}) THEN Raise(results, "KeyError")
       ELSE IF ~DomainMatches(domain, app.domain)
       THEN ApplicationMatches(paper_data, Tail(applications), domain, results)
       ELSE IF ~("paper" \in DOMAIN paper_data /\ HasKeys(paper_data.paper, {"title", "year"})
                 /\ HasKeys(app, {"purpose"}))
       THEN Raise(results, "KeyError")
       ELSE ApplicationMatches(paper_data, Tail(applications), domain,
              [results EXCEPT
                 !.papers = Append(@, [title |-> paper_data.paper.title,
                                       year |-> paper_data.paper.year,
                                       purpose |-> app.purpose]),
                 !.techniques = @ \o Get(paper_data, "techniques", <<>>),
                 !.results = @ \o Get(paper_data, "results", <<>>)])

RECURSIVE ApplicationScan(_, _, _)
\* the loop of query_by_application over the records not yet seen
ApplicationScan(papers, domain, results) ==
  IF papers = <<>> \/ results.raised # "none" THEN results
  ELSE LET paper_data == Head(papers).obj IN
       ApplicationScan(Tail(papers), domain,
         ApplicationMatches(paper_data, Get(paper_data, "applications", <<>>), domain, results))

\* query_by_application(domain)
query_by_application(papers_data, domain) ==
  ApplicationScan(papers_data, domain,
    [raised |-> "none", domain |-> domain,
     papers |-> <<>>, techniques |-> <<>>, results |-> <<>>])

RECURSIVE MetricResults(_, _, _, _)
\* the inner loop of query_by_metric over one record's results
MetricResults(paper_data, results_list, metric_name, results) ==
  IF results_list = <<>> THEN results
  ELSE LET result == Head(results_list) IN
       MetricResults(paper_data, Tail(results_list), metric_name,
         IF Contains(Lower(metric_name), Lower(result.metric))
         THEN [results EXCEPT
                 !.papers = Append(@, paper_data.paper),
                 !.techniques = @ \o Get(paper_data, "techniques", <<>>),
                 !.best_results = Append(@, result)]
         ELSE results)

RECURSIVE MetricScan(_, _, _)
MetricScan(papers, metric_name, results) ==
  IF papers = <<>> THEN results
  ELSE MetricScan(Tail(papers), metric_name,
         MetricResults(Head(papers).obj, Get(Head(papers).obj, "results", <<>>),
                       metric_name, results))

\* the keys of sort(key=lambda x: float(x["value"]))
FloatKeys(best_results) == [i \in 1..Len(best_results) |-> Float(best_results[i].value)]

\* variant (not the code): the sort is ascending
SortBestResultsAscending(best_results) ==
  LET keys == FloatKeys(best_results) IN
  IF \E i \in 1..Len(keys) : ~keys[i].ok THEN best_results
  ELSE SortedDescending(best_results, [i \in 1..Len(keys) |-> 0 - keys[i].val])

\* try: best_results.sort(key=float of value, reverse=True) / except: pass.
\* The keys are computed before any element moves, so a value that is no
\* number leaves the list as it was.
SortBestResults(best_results) ==
  LET keys == FloatKeys(best_results) IN
  IF \E i \in 1..Len(keys) : ~keys[i].ok THEN best_results
  ELSE SortedDescending(best_results, [i \in 1..Len(keys) |-> keys[i].val])

\* query_by_metric(metric_name)
query_by_metric(papers_data, metric_name) ==
  LET results == MetricScan(papers_data, metric_name,
                   [raised |-> "none", metric |-> metric_name,
                    papers |-> <<>>, techniques |-> <<>>, best_results |-> <<>>])
  IN [results EXCEPT !.best_results = SortBestResults(@)]

\* the first record whose title contains paper_title ignoring case: its
\* position, 0 if there is none
TargetPaper(papers_data, paper_title) ==
  LET hits == {i \in 1..Len(papers_data) :
                 Contains(Lower(paper_title), Lower(papers_data[i].obj.paper.title))}
  IN IF hits = {} THEN 0 ELSE CHOOSE i \in hits : \A j \in hits : i <= j

\* set(xs) & set(ys); list(...) of it is kept as the set, its order being
\* the hash order of the run
Shared(xs, ys) == {xs[i] : i \in 1..Len(xs)} \cap {ys[i] : i \in 1..Len(ys)}

RECURSIVE SimilarScan(_, _, _)
\* the second loop of query_similar_papers over the records not yet seen
SimilarScan(papers, target_paper, similar_papers) ==
  IF papers = <<>> THEN similar_papers
  ELSE LET paper_data == Head(papers).obj
           target_techniques == Names(Get(target_paper, "techniques", <<>>), "name")
           target_domains == Names(Get(target_paper, "applications", <<>>), "domain")
           paper_techniques == Names(Get(paper_data, "techniques", <<>>), "name")
           paper_domains == Names(Get(paper_data, "applications", <<>>), "domain")
           technique_overlap == Cardinality(Shared(target_techniques, paper_techniques))
           domain_overlap == Cardinality(Shared(target_domains, paper_domains))
       IN SimilarScan(Tail(papers), target_paper,
            IF paper_data.paper.title = target_paper.paper.title THEN similar_papers
            ELSE IF technique_overlap > 0 \/ domain_overlap > 0
            THEN Append(similar_papers,
                   [paper |-> paper_data.paper,
                    technique_similarity |-> technique_overlap,
                    domain_similarity |-> domain_overlap,
                    shared_techniques |-> Shared(target_techniques, paper_techniques),
                    shared_domains |-> Shared(target_domains, paper_domains)])
            ELSE similar_papers)

SimilarityKeys(similar_papers) ==
  [i \in 1..Len(similar_papers) |->
     similar_papers[i].technique_similarity + similar_papers[i].domain_similarity]

\* variant (not the code): the sort is ascending
RankSimilarAscending(similar_papers) ==
  SortedDescending(similar_papers,
    [i \in 1..Len(similar_papers) |-> 0 - SimilarityKeys(similar_papers)[i]])

\* sorted(similar_papers, key=sum of the two similarities, reverse=True)
RankSimilar(similar_papers) ==
  SortedDescending(similar_papers, SimilarityKeys(similar_papers))

\* query_similar_papers(paper_title)
query_similar_papers(papers_data, paper_title) ==
  LET target == TargetPaper(papers_data, paper_title) IN
  IF target = 0 THEN <<>>
  ELSE RankSimilar(SimilarScan(papers_data, papers_data[target].obj, <<>>))

-----------------------------------------------------------------------------
(* The state *)

VARIABLES
  file,     \* the ontology file: [missing |-> TRUE] or [content |-> tokens]
  run,      \* the locals of the last ingestion run (graph.py __main__)
  kg,       \* the KnowledgeGraphQuery object of the query process
  loaded,   \* what its load_ontologies read: the file and the parsed `ontologies`
  stats,    \* the statistics the query process took after construction
  call,     \* the last query call: its name and argument
  result,   \* what that call returned
  results_file,  \* results.json: missing, text that is no JSON, or a JSON document
  session   \* the locals of interactive_query: where it is, `results`, the last turn

vars == <<file, run, kg, loaded, stats, call, result, results_file, session>>

None == [none |-> TRUE]

NoFile == [missing |-> TRUE]

\* interactive_query has not been called
NoSession == [at |-> "absent"]

\* The lines the initial ontology file is made of.
ObjectLine(m) == <<"{", m, "}">>

LineCatalogue ==
  { <<>>,                                        \* a blank line
    <<"junk">>,                                  \* text that is no JSON
    ObjectLine("mA"), ObjectLine("mErr"), ObjectLine("mBadTech"),
    <<"SP">> \o ObjectLine("mC") \o <<"SP">>,    \* a record between spaces
    <<"{", "}">>,                                \* the empty object
    <<"7">>,                                     \* a number
    <<"[">> \o ObjectLine("mA") \o <<",">>,      \* the first line of an array
    ObjectLine("mErr") \o <<",", "s_err", "]">>, \* the last line of an array
    <<"[">> \o ObjectLine("mB") \o <<",", "SP">> \o ObjectLine("mC") \o <<"]">> }

RECURSIVE Join(_)
\* '\n'.join(lines)
Join(lines) ==
  IF lines = <<>> THEN <<>>
  ELSE IF Len(lines) = 1 THEN Head(lines)
  ELSE Head(lines) \o <<"NL">> \o Join(Tail(lines))

Files ==
  {NoFile} \cup
  {[content |-> Join(ls)] : ls \in UNION {[1..n -> LineCatalogue] : n \in 0..MaxLines}}

\* What extract_ontology_from_pdf can return.
Extractions == {[obj |-> Members.mC], FailedExtraction}

NoKg ==
  [status |-> "absent", error |-> "none", at |-> "none",
   papers_data |-> <<>>, nodes |-> <<>>, edges |-> <<>>]

Init ==
  /\ file \in Files
  /\ run = None
  /\ kg = NoKg
  /\ loaded = None
  /\ stats = None
  /\ call = None
  /\ result = None
  /\ results_file = NoFile
  /\ session = NoSession

\* graph.py __main__: load the existing ontologies, append the new one, save.
Ingest(ontology) ==
  LET existing_ontologies == load_existing_ontologies(file) IN
  /\ Len(existing_ontologies) < MaxRecords
  /\ file' = save_ontologies(Append(existing_ontologies, ontology))
  /\ run' = [before |-> file, existing_ontologies |-> existing_ontologies,
             ontology |-> ontology]
  /\ UNCHANGED <<kg, loaded, stats, call, result, results_file, session>>

\* The start of interactive_query / example_queries: construct the knowledge
\* graph and, if that returned, take its statistics.
StartSession ==
  /\ kg.status = "absent"
  /\ kg' = KnowledgeGraphQuery(file)
  /\ loaded' = [from |-> file, ontologies |-> ParsedOntologies(file)]
  /\ stats' = IF kg'.status = "ready" THEN get_graph_statistics(kg') ELSE None
  /\ UNCHANGED <<file, run, call, result, results_file, session>>

Next ==
  \/ \E ontology \in Extractions : Ingest(ontology)
  \/ StartSession

Spec == Init /\ [][Next]_vars

-----------------------------------------------------------------------------
(* The record store: claims C1 - C5 *)

\* a JSON object with a top-level "error" key
HasErrorMarker(v) == "obj" \in DOMAIN v /\ "error" \in DOMAIN v.obj

Ingested == "ontology" \in DOMAIN run
Started == "from" \in DOMAIN loaded

\* the file has content and the content as a whole is no JSON value
WholeParseFails(f) ==
  /\ "content" \in DOMAIN f
  /\ Strip(f.content) # <<>>
  /\ ~JsonLoads(Strip(f.content)).ok

\* the non-blank lines of the file, each stripped
LinesOf(f) == NonBlankLines(Strip(f.content))

WellFormedLines(f) == {i \in 1..Len(LinesOf(f)) : JsonLoads(LinesOf(f)[i]).ok}

\* ontologies is the values of the well-formed lines, in file order: an
\* increasing one-to-one map from its positions onto the well-formed lines
IsLinewiseParse(f, ontologies) ==
  /\ Len(ontologies) = Cardinality(WellFormedLines(f))
  /\ \E at \in [1..Len(ontologies) -> WellFormedLines(f)] :
       /\ \A i, j \in 1..Len(ontologies) : i < j => at[i] < at[j]
       /\ \A i \in 1..Len(ontologies) : ontologies[i] = JsonLoads(LinesOf(f)[at[i]]).val

\* the file's content is one JSON object
IsSingleObject(f) ==
  /\ "content" \in DOMAIN f
  /\ JsonLoads(f.content).ok
  /\ "obj" \in DOMAIN JsonLoads(f.content).val

\* C1: no record with a top-level "error" key is ever in papers_data, and every
\* such record that an ingestion run loaded is still in the file the run saved.
C1_ErrorRecordsHiddenButKept ==
  /\ \A i \in 1..Len(kg.papers_data) : ~HasErrorMarker(kg.papers_data[i])
  /\ Ingested =>
       \A i \in 1..Len(run.existing_ontologies) :
         HasErrorMarker(run.existing_ontologies[i]) =>
           InList(run.existing_ontologies[i], load_existing_ontologies(file))

\* an error record was read by both programs: hidden from a ready graph that
\* holds other papers, and loaded by an ingestion run
C1_Witness ==
  /\ kg.status = "ready" /\ kg.papers_data # <<>>
  /\ \E i \in 1..Len(loaded.ontologies) : HasErrorMarker(loaded.ontologies[i])
  /\ Ingested
  /\ \E i \in 1..Len(run.existing_ontologies) : HasErrorMarker(run.existing_ontologies[i])

\* C2: when the whole content is no JSON value, what either loader parsed is
\* exactly the values of the well-formed non-blank lines, in file order.
C2_LinewiseFallback ==
  /\ (Started /\ WholeParseFails(loaded.from)) =>
        IsLinewiseParse(loaded.from, loaded.ontologies)
  /\ (Ingested /\ WholeParseFails(run.before)) =>
        IsLinewiseParse(run.before, run.existing_ontologies)

\* both loaders read a file of two non-blank lines, one well-formed and one
\* not, and got one record
C2_Witness ==
  /\ Started /\ WholeParseFails(loaded.from)
  /\ Len(LinesOf(loaded.from)) = 2 /\ Cardinality(WellFormedLines(loaded.from)) = 1
  /\ Len(loaded.ontologies) = 1
  /\ Ingested /\ WholeParseFails(run.before)
  /\ Len(LinesOf(run.before)) = 2 /\ Cardinality(WellFormedLines(run.before)) = 1
  /\ Len(run.existing_ontologies) = 1

\* C3 as stated: a file that is one JSON object loads as the one-element
\* sequence of that object, in load_existing_ontologies and in papers_data.
C3_SingleObjectAsStated ==
  /\ (Ingested /\ IsSingleObject(run.before)) =>
        run.existing_ontologies = <<JsonLoads(run.before.content).val>>
  /\ (Started /\ IsSingleObject(loaded.from)) =>
        kg.papers_data = <<JsonLoads(loaded.from.content).val>>

\* C3 amended: load_existing_ontologies gives the one-element sequence of the
\* object; papers_data is that sequence too unless the object has a top-level
\* "error" key, and is empty then.
C3_SingleObject ==
  /\ (Ingested /\ IsSingleObject(run.before)) =>
        run.existing_ontologies = <<JsonLoads(run.before.content).val>>
  /\ (Started /\ IsSingleObject(loaded.from)) =>
        kg.papers_data =
          IF HasErrorMarker(JsonLoads(loaded.from.content).val)
          THEN <<>> ELSE <<JsonLoads(loaded.from.content).val>>

\* a file holding one paper object was read by both programs
C3_Witness ==
  /\ Ingested /\ IsSingleObject(run.before)
  /\ Started /\ IsSingleObject(loaded.from)
  /\ ~HasErrorMarker(JsonLoads(loaded.from.content).val)
  /\ Len(kg.papers_data) = 1

ZeroStatistics ==
  [total_papers |-> 0, total_nodes |-> 0, total_edges |-> 0,
   node_types |-> [paper |-> 0, technique |-> 0, result |-> 0, application |-> 0]]

\* C4: with no file at the path, load_existing_ontologies returns the empty
\* list and the knowledge graph is constructed empty, with zero statistics.
C4_MissingFileIsEmpty ==
  /\ (Ingested /\ run.before = NoFile) => run.existing_ontologies = <<>>
  /\ (Started /\ loaded.from = NoFile) =>
        /\ kg.status = "ready"
        /\ kg.papers_data = <<>>
        /\ DOMAIN kg.nodes = {} /\ DOMAIN kg.edges = {}
        /\ stats = ZeroStatistics

\* both programs ran on the missing file
C4_Witness ==
  /\ Started /\ loaded.from = NoFile
  /\ Ingested /\ run.before = NoFile

\* C5: constructing the knowledge graph never raises, whatever the file holds.
C5_ConstructionNeverRaises == kg.status # "raised"

-----------------------------------------------------------------------------
(* The index: claim C10 *)

\* every technique entry of the records, in record order
TechniqueEntries(papers) ==
  Concat([i \in 1..Len(papers) |-> Get(papers[i].obj, "techniques", <<>>)])

\* the JSON objects without a top-level "error" key among what a loader returns
NonErrorRecords(ontologies) ==
  {i \in 1..Len(ontologies) : "obj" \in DOMAIN ontologies[i] /\ ~HasErrorMarker(ontologies[i])}

\* C10: the statistics report as total_papers the number of non-error records
\* of the file, and a technique node count that is at most the number of
\* technique entries and equals it only if no two entries share a name.
C10_Statistics ==
  (Started /\ kg.status = "ready") =>
    LET entries == TechniqueEntries(kg.papers_data) IN
    /\ stats.total_papers = Cardinality(NonErrorRecords(load_existing_ontologies(loaded.from)))
    /\ stats.node_types.technique <= Len(entries)
    /\ stats.node_types.technique = Len(entries) =>
         \A i, j \in 1..Len(entries) : i # j => entries[i].name # entries[j].name

\* three papers of two techniques each are indexed, some sharing a name
C10_Witness ==
  /\ Started /\ kg.status = "ready"
  /\ stats.total_papers = 3
  /\ \A i \in 1..3 : Len(kg.papers_data[i].obj.techniques) = 2
  /\ stats.node_types.technique < 6

\* records whose technique names are all different are indexed
C10_WitnessDistinct ==
  /\ Started /\ kg.status = "ready"
  /\ stats.node_types.technique = 2
  /\ Len(TechniqueEntries(kg.papers_data)) = 2

-----------------------------------------------------------------------------
(* The record store and the index: claims C14, C15 *)

\* the JSON array the file holds (the empty sequence if it holds none)
PersistedArray(f) ==
  IF "content" \in DOMAIN f /\ JsonLoads(f.content).ok
     /\ "arr" \in DOMAIN JsonLoads(f.content).val
  THEN JsonLoads(f.content).val.arr
  ELSE <<>>

HoldsArray(f) ==
  /\ "content" \in DOMAIN f /\ JsonLoads(f.content).ok
  /\ "arr" \in DOMAIN JsonLoads(f.content).val

\* C14: every ingestion run leaves the file holding a JSON array that is the
\* records loadable from the file before the run, in the same order, followed
\* by the one new record, a failed extraction's error record included.
C14_AppendOnlyStore ==
  [][run' # run =>
       /\ HoldsArray(file')
       /\ PersistedArray(file') = Append(load_existing_ontologies(file), run'.ontology)
       /\ run'.ontology \in Extractions]_vars

\* a run on a file that an earlier run saved: two records were loaded, the
\* second the error record of a failed extraction, and both are still there
\* in front of the new record
C14_Witness ==
  /\ Ingested /\ "content" \in DOMAIN run.before
  /\ Len(run.before.content) > 2 /\ SubSeq(run.before.content, 1, 2) = <<"[", "NL">>
  /\ Len(run.existing_ontologies) = 2
  /\ run.existing_ontologies[2] = FailedExtraction
  /\ PersistedArray(file) = Append(run.existing_ontologies, run.ontology)

RECURSIVE Dedup(_, _)
\* the records of papers with every repetition of an earlier record left out
Dedup(papers, seen) ==
  IF papers = <<>> THEN <<>>
  ELSE IF Head(papers) \in seen THEN Dedup(Tail(papers), seen)
  ELSE <<Head(papers)>> \o Dedup(Tail(papers), seen \cup {Head(papers)})

HasRepeatedRecord(papers) ==
  \E i, j \in 1..Len(papers) : i < j /\ papers[i] = papers[j]

EdgeCount(papers) == Cardinality(DOMAIN build_graph(papers).edges)

\* the ordered pairs of node names build_graph asks an edge for
EdgePairs(papers) ==
  UNION {
    LET d == papers[i].obj
        title == Get(d.paper, "title", UnknownPaper)
        techniques == Get(d, "techniques", <<>>)
        results == Get(d, "results", <<>>)
        applications == Get(d, "applications", <<>>)
        relationships == Get(d, "relationships", <<>>)
    IN {<<title, techniques[k].name>> : k \in 1..Len(techniques)}
       \cup {<<title, results[k].metric \o <<":", " ">> \o results[k].value>> :
               k \in 1..Len(results)}
       \cup {<<title, applications[k].domain \o <<" ", "-", " ">> \o applications[k].purpose>> :
               k \in 1..Len(applications)}
       \cup {<<relationships[k].subject, relationships[k].object>> :
               k \in 1..Len(relationships)}
    : i \in 1..Len(papers)}

IndexReady == Started /\ kg.status = "ready"

\* C15 as stated: a record indexed more than once adds edges, so the edge
\* count is larger than with every record indexed once.
C15_DuplicateEdgesAsStated ==
  (IndexReady /\ HasRepeatedRecord(kg.papers_data)) =>
     stats.total_edges > EdgeCount(Dedup(kg.papers_data, {}))

\* C15: the index holds one edge per ordered pair of node names, so a record
\* indexed more than once adds no edge: the edge count is that of the records
\* indexed once each.
C15_OneEdgePerPair ==
  IndexReady =>
    /\ stats.total_edges = Cardinality(EdgePairs(kg.papers_data))
    /\ stats.total_edges = EdgeCount(Dedup(kg.papers_data, {}))

\* a ready index over a collection that holds the same record twice, with edges
C15_Witness ==
  /\ IndexReady
  /\ HasRepeatedRecord(kg.papers_data)
  /\ stats.total_edges > 0

-----------------------------------------------------------------------------
(* The query layer: a ready knowledge graph over well-formed records *)

\* Bound: the records of the file a query session starts from.
MaxPapers == 4

QueryRecords ==
  {[obj |-> Members[m]] : m \in {"qGnmt", "qAttn", "qBert", "qGnmt2", "qBert2"}}

QueryFiles ==
  {save_ontologies(records) :
     records \in UNION {[1..n -> QueryRecords] : n \in 0..MaxPapers}}

TechniqueQueries ==
  {Transformer, Lower(TransformerArchitecture), Lower(LSTM), Attn}

MetricQueries == {BLEU, <<"s", "c", "o", "r", "e">>, <<>>}

TitleQueries == {Lower(GNMT), BERT, <<"T", "T", "E", "N">>, <<"z">>}

DomainQueries == {<<"T", "R", "A", "N", "S">>, Lower(NLP), <<"l">>, <<"z">>}

\* The state after a query session started on one of the files.
InitQ ==
  /\ file \in QueryFiles
  /\ run = None
  /\ kg = KnowledgeGraphQuery(file)
  /\ loaded = [from |-> file, ontologies |-> ParsedOntologies(file)]
  /\ stats = get_graph_statistics(kg)
  /\ call = None
  /\ result = None
  /\ results_file = NoFile
  /\ session = NoSession

QueryByTechnique(technique_name) ==
  /\ kg.status = "ready"
  /\ call' = [op |-> "query_by_technique", arg |-> technique_name]
  /\ result' = query_by_technique(kg.papers_data, technique_name)
  /\ UNCHANGED <<file, run, kg, loaded, stats, results_file, session>>

QueryByMetric(metric_name) ==
  /\ kg.status = "ready"
  /\ call' = [op |-> "query_by_metric", arg |-> metric_name]
  /\ result' = query_by_metric(kg.papers_data, metric_name)
  /\ UNCHANGED <<file, run, kg, loaded, stats, results_file, session>>

QuerySimilarPapers(paper_title) ==
  /\ kg.status = "ready"
  /\ call' = [op |-> "query_similar_papers", arg |-> paper_title]
  /\ result' = query_similar_papers(kg.papers_data, paper_title)
  /\ UNCHANGED <<file, run, kg, loaded, stats, results_file, session>>

QueryByApplication(domain) ==
  /\ kg.status = "ready"
  /\ call' = [op |-> "query_by_application", arg |-> domain]
  /\ result' = query_by_application(kg.papers_data, domain)
  /\ UNCHANGED <<file, run, kg, loaded, stats, results_file, session>>

NextQ ==
  \/ \E technique_name \in TechniqueQueries : QueryByTechnique(technique_name)
  \/ \E metric_name \in MetricQueries : QueryByMetric(metric_name)
  \/ \E paper_title \in TitleQueries : QuerySimilarPapers(paper_title)
  \/ \E domain \in DomainQueries : QueryByApplication(domain)

QSpec == InitQ /\ [][NextQ]_vars

-----------------------------------------------------------------------------
(* The query layer: claims C6 - C9 *)

IsCall(op) == "op" \in DOMAIN call /\ call.op = op

\* the elements of seq at the positions in S, in order
PickAt(seq, S) ==
  LET upTo[i \in 0..Len(seq)] ==
        IF i = 0 THEN <<>>
        ELSE IF i \in S THEN Append(upTo[i - 1], seq[i]) ELSE upTo[i - 1]
  IN upTo[Len(seq)]

RECURSIVE GroupsFrom(_, _, _)
\* the items whose key is the largest of ks, in order, then those of the next
\* largest, and so on
GroupsFrom(items, keys, ks) ==
  IF ks = {} THEN <<>>
  ELSE LET top == CHOOSE k \in ks : \A j \in ks : j <= k IN
       PickAt(items, {i \in 1..Len(items) : keys[i] = top})
       \o GroupsFrom(items, keys, ks \ {top})

\* items by key descending, items of one key in their order
ByKeyDescending(items, keys) ==
  GroupsFrom(items, keys, {keys[i] : i \in 1..Len(items)})

RecordTechniques(record) == Get(record.obj, "techniques", <<>>)
RecordApplications(record) == Get(record.obj, "applications", <<>>)
RecordResults(record) == Get(record.obj, "results", <<>>)

\* the record lists a technique whose whole name is `name`, ignoring case
ListsTechnique(record, name) ==
  \E k \in 1..Len(RecordTechniques(record)) :
    Lower(RecordTechniques(record)[k].name) = Lower(name)

PaperEntry(record) ==
  [title |-> record.obj.paper.title, year |-> record.obj.paper.year,
   authors |-> record.obj.paper.authors]

\* C6: query_by_technique(name) returns one paper entry for each record that
\* lists a technique named `name` ignoring case, in record order, and the
\* concatenation of those records' applications and of their results.
C6_QueryByTechnique ==
  IsCall("query_by_technique") =>
    LET matching == PickAt(kg.papers_data,
                      {i \in 1..Len(kg.papers_data) :
                         ListsTechnique(kg.papers_data[i], call.arg)})
    IN /\ result.raised = "none"
       /\ result.papers = [i \in 1..Len(matching) |-> PaperEntry(matching[i])]
       /\ result.applications =
            Concat([i \in 1..Len(matching) |-> RecordApplications(matching[i])])
       /\ result.results =
            Concat([i \in 1..Len(matching) |-> RecordResults(matching[i])])

\* two records matched in another letter case, a record whose technique name
\* only contains the argument was left out, and an application is there twice
C6_Witness ==
  /\ IsCall("query_by_technique") /\ call.arg = Transformer
  /\ Len(result.papers) = 2
  /\ \E i \in 1..Len(kg.papers_data) :
       /\ ~ListsTechnique(kg.papers_data[i], call.arg)
       /\ \E k \in 1..Len(RecordTechniques(kg.papers_data[i])) :
            Contains(call.arg, RecordTechniques(kg.papers_data[i])[k].name)
  /\ \E i, j \in 1..Len(result.applications) :
       i # j /\ result.applications[i] = result.applications[j]

\* the two-paper fixture: exactly one of two papers lists a technique named
\* "Transformer Architecture", and "Transformer" is the technique asked for
TransformerFixture ==
  /\ IsCall("query_by_technique") /\ call.arg = Transformer
  /\ Len(kg.papers_data) = 2
  /\ Cardinality({i \in 1..2 :
       InList(TransformerArchitecture, Names(RecordTechniques(kg.papers_data[i]), "name"))}) = 1

FixturePaper ==
  kg.papers_data[CHOOSE i \in 1..2 :
    InList(TransformerArchitecture, Names(RecordTechniques(kg.papers_data[i]), "name"))]

\* C7 as stated: the query returns exactly the paper that lists "Transformer
\* Architecture", with its applications and results.
C7_FixtureAsStated ==
  TransformerFixture =>
    /\ result.papers = <<PaperEntry(FixturePaper)>>
    /\ result.applications = RecordApplications(FixturePaper)
    /\ result.results = RecordResults(FixturePaper)

\* C7 amended: the query returns only papers that list a technique named
\* "Transformer" in some letter case; the paper whose technique is "Transformer
\* Architecture" is not among them, and with no such paper in the fixture the
\* papers, applications and results returned are empty.
C7_Fixture ==
  TransformerFixture =>
    /\ \A i \in 1..2 :
         InList(PaperEntry(kg.papers_data[i]), result.papers)
           => ListsTechnique(kg.papers_data[i], Transformer)
    /\ (\A i \in 1..2 : ~ListsTechnique(kg.papers_data[i], Transformer)) =>
         /\ result.papers = <<>>
         /\ result.applications = <<>>
         /\ result.results = <<>>

\* the fixture was queried and nothing came back
C7_Witness ==
  /\ TransformerFixture
  /\ RecordApplications(FixturePaper) # <<>>
  /\ result.papers = <<>>

\* The numbers the value texts of the records stand for, in hundredths.
DecimalValues ==
  (<<"2", "4", ".", "6">> :> 2460) @@ (<<"2", "8", ".", "4">> :> 2840) @@
  (<<"2", "8", ".", "4", "0">> :> 2840) @@ (<<"9">> :> 900) @@ (<<"1">> :> 100)

\* every result of every record, in record order
AllResults == Concat([i \in 1..Len(kg.papers_data) |-> RecordResults(kg.papers_data[i])])

MetricMatches(metric_name) ==
  SelectSeq(AllResults, LAMBDA r : Contains(Lower(metric_name), Lower(r.metric)))

AllNumeric(results) == \A i \in 1..Len(results) : results[i].value \in DOMAIN DecimalValues

\* C8: best_results is the results whose metric contains the argument ignoring
\* case: by value descending when every value is a number, and in insertion
\* order when some value is not; no error is raised.
C8_QueryByMetric ==
  IsCall("query_by_metric") =>
    LET matches == MetricMatches(call.arg) IN
    /\ result.raised = "none"
    /\ result.best_results =
         IF AllNumeric(matches)
         THEN ByKeyDescending(matches, [i \in 1..Len(matches) |-> DecimalValues[matches[i].value]])
         ELSE matches

\* BLEU 24.6 was inserted before BLEU 28.4 and is returned after it
C8_Witness ==
  /\ IsCall("query_by_metric") /\ call.arg = BLEU
  /\ AllNumeric(MetricMatches(call.arg))
  /\ Len(result.best_results) = 2
  /\ MetricMatches(call.arg)[1].value = <<"2", "4", ".", "6">>
  /\ result.best_results[1].value = <<"2", "8", ".", "4">>
  /\ result.best_results[2].value = <<"2", "4", ".", "6">>

\* a value "N/A" among the matches left a list in insertion order that is not
\* in descending order
C8_WitnessNonNumeric ==
  /\ IsCall("query_by_metric")
  /\ ~AllNumeric(MetricMatches(call.arg))
  /\ Len(result.best_results) >= 3
  /\ result.best_results[1].value = <<"2", "4", ".", "6">>
  /\ result.best_results[2].value = <<"2", "8", ".", "4">>

TitleOf(record) == record.obj.paper.title

TitleHits(paper_title) ==
  {i \in 1..Len(kg.papers_data) :
     Contains(Lower(paper_title), Lower(TitleOf(kg.papers_data[i])))}

NameSet(items, key) == {items[i][key] : i \in 1..Len(items)}

TechniqueOverlap(a, b) ==
  Cardinality(NameSet(RecordTechniques(a), "name") \cap NameSet(RecordTechniques(b), "name"))

DomainOverlap(a, b) ==
  Cardinality(NameSet(RecordApplications(a), "domain")
              \cap NameSet(RecordApplications(b), "domain"))

\* what an entry of the result says of its paper and its two counts
Scores(entries) ==
  [i \in 1..Len(entries) |->
     [paper |-> entries[i].paper,
      technique_similarity |-> entries[i].technique_similarity,
      domain_similarity |-> entries[i].domain_similarity]]

\* C9: query_similar_papers(t) is empty when no title contains t ignoring
\* case.  Otherwise the target is the first such record, and the result has one
\* entry for each record of another title whose technique names or application
\* domains overlap the target's, with the sizes of the two intersections, by
\* the sum of the two sizes descending, entries of one sum in record order.
C9_QuerySimilarPapers ==
  IsCall("query_similar_papers") =>
    IF TitleHits(call.arg) = {} THEN result = <<>>
    ELSE LET target == kg.papers_data[CHOOSE i \in TitleHits(call.arg) :
                                        \A j \in TitleHits(call.arg) : i <= j]
             similar == PickAt(kg.papers_data,
                          {i \in 1..Len(kg.papers_data) :
                             /\ TitleOf(kg.papers_data[i]) # TitleOf(target)
                             /\ \/ TechniqueOverlap(target, kg.papers_data[i]) > 0
                                \/ DomainOverlap(target, kg.papers_data[i]) > 0})
             entries == [i \in 1..Len(similar) |->
                           [paper |-> similar[i].obj.paper,
                            technique_similarity |-> TechniqueOverlap(target, similar[i]),
                            domain_similarity |-> DomainOverlap(target, similar[i])]]
         IN Scores(result) =
              ByKeyDescending(entries,
                [i \in 1..Len(entries) |->
                   entries[i].technique_similarity + entries[i].domain_similarity])

\* the record found last has the largest sum and is returned first, before two
\* records of equal sums that keep their order
C9_Witness ==
  /\ IsCall("query_similar_papers") /\ call.arg = Lower(GNMT)
  /\ Len(kg.papers_data) = 4 /\ Len(result) = 3
  /\ result[1].paper = kg.papers_data[4].obj.paper
  /\ result[2].paper = kg.papers_data[2].obj.paper
  /\ result[3].paper = kg.papers_data[3].obj.paper
  /\ result[1].technique_similarity + result[1].domain_similarity = 2
  /\ result[2].technique_similarity = 0 /\ result[2].domain_similarity = 1
  /\ result[3].technique_similarity = 1 /\ result[3].domain_similarity = 0

\* a paper sharing one technique and no domain is included with counts 1 and
\* 0, and a paper sharing nothing is left out
C9_WitnessExcluded ==
  /\ IsCall("query_similar_papers") /\ TitleHits(call.arg) # {}
  /\ Len(kg.papers_data) = 3 /\ Len(result) = 1
  /\ result[1].technique_similarity = 1 /\ result[1].domain_similarity = 0
  /\ Cardinality({TitleOf(kg.papers_data[i]) : i \in 1..3}) = 3

-----------------------------------------------------------------------------
(* The query layer: claim C16 *)

\* the applications of the record whose domain contains d, ignoring case
MatchingApplications(record, d) ==
  PickAt(RecordApplications(record),
         {k \in 1..Len(RecordApplications(record)) :
            Contains(Lower(d), Lower(RecordApplications(record)[k].domain))})

\* what n copies of a list give when concatenated
Repeated(list, n) == Concat([k \in 1..n |-> list])

\* C16: query_by_application(d) returns, for each record in order and each of
\* its applications whose domain contains d ignoring case, one paper entry
\* with that application's purpose, the record's whole technique list and
\* its whole result list; a record without such an application adds nothing.
C16_QueryByApplication ==
  IsCall("query_by_application") =>
    LET n == Len(kg.papers_data)
        hits(i) == MatchingApplications(kg.papers_data[i], call.arg)
    IN /\ result.raised = "none"
       /\ result.domain = call.arg
       /\ result.papers =
            Concat([i \in 1..n |->
              [k \in 1..Len(hits(i)) |->
                 [title |-> kg.papers_data[i].obj.paper.title,
                  year |-> kg.papers_data[i].obj.paper.year,
                  purpose |-> hits(i)[k].purpose]]])
       /\ result.techniques =
            Concat([i \in 1..n |->
              Repeated(RecordTechniques(kg.papers_data[i]), Len(hits(i)))])
       /\ result.results =
            Concat([i \in 1..n |->
              Repeated(RecordResults(kg.papers_data[i]), Len(hits(i)))])

\* the argument matched in another letter case a domain it is only a part
\* of, a record with applications of other domains was left out, and the
\* matching record's techniques came back whole
C16_Witness ==
  /\ IsCall("query_by_application")
  /\ Len(result.papers) = 1
  /\ \E i, j \in 1..Len(kg.papers_data) :
       /\ Len(MatchingApplications(kg.papers_data[i], call.arg)) = 1
       /\ MatchingApplications(kg.papers_data[i], call.arg)[1].domain # call.arg
       /\ Lower(MatchingApplications(kg.papers_data[i], call.arg)[1].domain) # Lower(call.arg)
       /\ Len(RecordApplications(kg.papers_data[i])) = 2
       /\ result.techniques = RecordTechniques(kg.papers_data[i])
       /\ Len(result.techniques) = 2
       /\ RecordApplications(kg.papers_data[j]) # <<>>
       /\ MatchingApplications(kg.papers_data[j], call.arg) = <<>>

\* one record matched with two of its applications and is there twice
C16_WitnessTwice ==
  /\ IsCall("query_by_application")
  /\ \E i \in 1..Len(kg.papers_data) :
       Len(MatchingApplications(kg.papers_data[i], call.arg)) = 2
  /\ Len(result.papers) = 2
  /\ result.papers[1].title = result.papers[2].title
  /\ result.papers[1].purpose # result.papers[2].purpose

-----------------------------------------------------------------------------
(* query.py: LLMQueryInterface *)

\* The characters of the strings the records keep whole (years, author names,
\* technique types, dataset names) and of the default 'N/A'.
Chars ==
  ("2016" :> <<"2", "0", "1", "6">>) @@
  ("2017" :> <<"2", "0", "1", "7">>) @@
  ("2018" :> <<"2", "0", "1", "8">>) @@
  ("2019" :> <<"2", "0", "1", "9">>) @@
  ("2020" :> <<"2", "0", "2", "0">>) @@
  ("N/A" :> <<"N", "/", "A">>) @@
  ("Wu" :> <<"W", "u">>) @@
  ("Schuster" :> <<"S", "c", "h", "u", "s", "t", "e", "r">>) @@
  ("Vaswani" :> <<"V", "a", "s", "w", "a", "n", "i">>) @@
  ("Shazeer" :> <<"S", "h", "a", "z", "e", "e", "r">>) @@
  ("Devlin" :> <<"D", "e", "v", "l", "i", "n">>) @@
  ("Doe" :> <<"D", "o", "e">>) @@
  ("architecture" :> <<"a", "r", "c", "h", "i", "t", "e", "c", "t", "u", "r", "e">>) @@
  ("training" :> <<"t", "r", "a", "i", "n", "i", "n", "g">>) @@
  ("optimization" :> <<"o", "p", "t", "i", "m", "i", "z", "a", "t", "i", "o", "n">>) @@
  ("WMT" :> <<"W", "M", "T">>)

TechniqueWords ==
  {<<"t", "e", "c", "h", "n", "i", "q", "u", "e">>,
   <<"m", "e", "t", "h", "o", "d">>,
   <<"a", "p", "p", "r", "o", "a", "c", "h">>,
   <<"m", "o", "d", "e", "l">>}

ApplicationWords ==
  {<<"a", "p", "p", "l", "i", "c", "a", "t", "i", "o", "n">>,
   <<"d", "o", "m", "a", "i", "n">>,
   <<"u", "s", "e", " ", "c", "a", "s", "e">>,
   <<"p", "u", "r", "p", "o", "s", "e">>}

ResultWords ==
  {<<"r", "e", "s", "u", "l", "t">>,
   <<"p", "e", "r", "f", "o", "r", "m", "a", "n", "c", "e">>,
   <<"a", "c", "c", "u", "r", "a", "c", "y">>,
   <<"b", "l", "e", "u">>,
   <<"m", "e", "t", "r", "i", "c">>}

\* any(word in query_lower for word in words)
AnyWordIn(words, query_lower) == \E word \in words : Contains(word, query_lower)

\* _extract_relevant_info(query): the four buckets, or the KeyError of
\* paper_data["paper"]
_extract_relevant_info(papers_data, query) ==
  LET query_lower == Lower(query)
      n == Len(papers_data)
      all(key) == Concat([i \in 1..n |-> Get(papers_data[i].obj, key, <<>>)])
  IN IF \E i \in 1..n : "paper" \notin DOMAIN papers_data[i].obj
     THEN [raised |-> "KeyError"]
     ELSE [raised |-> "none",
           papers |-> [i \in 1..n |-> papers_data[i].obj.paper],
           techniques |-> IF AnyWordIn(TechniqueWords, query_lower)
                          THEN all("techniques") ELSE <<>>,
           applications |-> IF AnyWordIn(ApplicationWords, query_lower)
                            THEN all("applications") ELSE <<>>,
           results |-> IF AnyWordIn(ResultWords, query_lower)
                       THEN all("results") ELSE <<>>]

\* The number of items of a category that _create_context renders.
ContextLimit == 5

\* variant (not the code): the slice keeps the whole list
TakeAll(list, n) == list

\* list[:n]
Take(list, n) == SubSeq(list, 1, IF Len(list) < n THEN Len(list) ELSE n)

RECURSIVE JoinStr(_, _)
\* sep.join(strings)
JoinStr(sep, strings) ==
  IF strings = <<>> THEN <<>>
  ELSE IF Len(strings) = 1 THEN Head(strings)
  ELSE Head(strings) \o sep \o JoinStr(sep, Tail(strings))

Categories == <<"papers", "techniques", "applications", "results">>

\* the label _create_context appends for a category
Label ==
  [papers |-> <<"P", "A", "P", "E", "R", "S", ":">>,
   techniques |-> <<"NL">> \o <<"T", "E", "C", "H", "N", "I", "Q", "U", "E", "S", ":">>,
   applications |-> <<"NL">> \o <<"A", "P", "P", "L", "I", "C", "A", "T", "I", "O", "N", "S", ":">>,
   results |-> <<"NL">> \o <<"R", "E", "S", "U", "L", "T", "S", ":">>]

\* the keys the f-string of a category subscripts
Subscripted ==
  [papers |-> {"title"}, techniques |-> {"name"},
   applications |-> {"domain", "purpose"}, results |-> {"metric", "value"}]

\* the f-string of a category for one item
Render(category, item) ==
  IF category = "papers"
  THEN <<"-", " ">> \o item.title \o <<" ", "(">> \o Chars[Get(item, "year", "N/A")]
       \o <<")", " ", "b", "y", " ">>
       \o JoinStr(<<",", " ">>,
                  [k \in 1..Len(Get(item, "authors", <<>>)) |-> Chars[item.authors[k]]])
  ELSE IF category = "techniques"
  THEN <<"-", " ">> \o item.name \o <<" ", "(">> \o Chars[Get(item, "type", "N/A")] \o <<")">>
  ELSE IF category = "applications"
  THEN <<"-", " ">> \o item.domain \o <<":", " ">> \o item.purpose
  ELSE <<"-", " ">> \o item.metric \o <<":", " ">> \o item.value
       \o <<" ", "(", "D", "a", "t", "a", "s", "e", "t", ":", " ">>
       \o Chars[Get(item, "dataset", "N/A")] \o <<")">>

\* what one `if relevant_info[category]:` block appends to context_parts
ContextBlock(relevant_info, category) ==
  LET items == Take(relevant_info[category], ContextLimit) IN
  IF relevant_info[category] = <<>> THEN <<>>
  ELSE <<Label[category]>> \o [k \in 1..Len(items) |-> Render(category, items[k])]

NoRelevantInformation == <<"N", "o", " ", "r", "e", "l", "e", "v", "a", "n", "t", " ", "i", "n", "f", "o", "r", "m", "a", "t", "i", "o", "n", " ", "f", "o", "u", "n", "d", ".">>

\* _create_context(relevant_info): the string it returns, or the KeyError of
\* the first item among those rendered that lacks a subscripted key
_create_context(relevant_info) ==
  IF \E c \in 1..4 : \E k \in 1..Len(Take(relevant_info[Categories[c]], ContextLimit)) :
       ~HasKeys(relevant_info[Categories[c]][k], Subscripted[Categories[c]])
  THEN [raised |-> "KeyError"]
  ELSE LET context_parts ==
             Concat([c \in 1..4 |-> ContextBlock(relevant_info, Categories[c])])
       IN [raised |-> "none",
           value |-> IF context_parts # <<>> THEN Join(context_parts)
                     ELSE NoRelevantInformation]

-----------------------------------------------------------------------------
(* The context builder on its own: any four buckets *)

\* Bound: the items of one bucket.
MaxItems == 6

Untitled == Members.qNoTitle.paper

PaperPool ==
  <<PaperA, PaperB, [title |-> BERT], Members.qGnmt.paper, PaperX, Untitled,
    Members.qAttn.paper>>

TechniquePool ==
  Members.mA.techniques \o <<[name |-> <<"n">>]>> \o Members.qGnmt.techniques
  \o Members.qBert.techniques

ApplicationPool ==
  Members.qBert.applications \o Members.mA.applications
  \o <<[domain |-> <<"d">>, purpose |-> <<"p">>, use_case |-> <<"u">>]>>

ResultPool ==
  Members.qAttn.results \o Members.qGnmt2.results
  \o <<[metric |-> BLEU, value |-> <<"4", "1">>, dataset |-> "WMT"]>>
  \o Members.mA.results

\* n items of the pool from its position o + 1 on, going round
Cycle(pool, o, n) == [i \in 1..n |-> pool[((i + o - 1) % Len(pool)) + 1]]

RelevantInfos ==
  {[papers |-> Cycle(PaperPool, o, a), techniques |-> Cycle(TechniquePool, o, b),
    applications |-> Cycle(ApplicationPool, o, c), results |-> Cycle(ResultPool, o, d)] :
     o \in 0..1, a \in 0..MaxItems, b \in 0..MaxItems, c \in 0..MaxItems, d \in 0..MaxItems}

\* _create_context is about to be called on four buckets.
InitC ==
  /\ file = NoFile
  /\ run = None
  /\ kg = NoKg
  /\ loaded = None
  /\ stats = None
  /\ call \in {[op |-> "_create_context", arg |-> relevant_info] :
                 relevant_info \in RelevantInfos}
  /\ result = None
  /\ results_file = NoFile
  /\ session = NoSession

CreateContext ==
  /\ result = None
  /\ result' = _create_context(call.arg)
  /\ UNCHANGED <<file, run, kg, loaded, stats, call, results_file, session>>

NextC == CreateContext

CSpec == InitC /\ [][NextC]_vars

-----------------------------------------------------------------------------
(* The context builder: claim C11 *)

Returned == "raised" \in DOMAIN result /\ result.raised = "none"

\* the items of a bucket that are rendered: its first five, or all if fewer
Shown(bucket) == IF Len(bucket) < 5 THEN Len(bucket) ELSE 5

\* the label of a category as a line of the text
LabelLine(category) ==
  IF category = "papers" THEN Label[category] ELSE Tail(Label[category])

\* the lines a category takes in the text: for a non-empty one its label, its
\* rendered items and, unless it is the papers, the blank line before the label
BlockLines(relevant_info, category) ==
  IF relevant_info[category] = <<>> THEN 0
  ELSE 1 + Shown(relevant_info[category]) + (IF category = "papers" THEN 0 ELSE 1)

RECURSIVE LinesBefore(_, _)
\* the lines of the blocks of the categories before the c-th
LinesBefore(relevant_info, c) ==
  IF c = 1 THEN 0
  ELSE LinesBefore(relevant_info, c - 1) + BlockLines(relevant_info, Categories[c - 1])

\* C11: when _create_context returns, the text is the sentinel exactly when all
\* four categories are empty; otherwise it holds, for each non-empty category
\* in the order papers, techniques, applications, results, the category's
\* label followed by its first five items at most, in list order, and
\* nothing else.
C11_CreateContext ==
  (IsCall("_create_context") /\ Returned) =>
    LET relevant_info == call.arg
        lines == Split(result.value)
        all_empty == \A c \in 1..4 : relevant_info[Categories[c]] = <<>>
    IN /\ all_empty <=> result.value = NoRelevantInformation
       /\ ~all_empty =>
            /\ Len(lines) = LinesBefore(relevant_info, 4)
                             + BlockLines(relevant_info, Categories[4])
            /\ \A c \in 1..4 :
                 LET category == Categories[c]
                     bucket == relevant_info[category]
                     at == LinesBefore(relevant_info, c)
                            + BlockLines(relevant_info, category) - Shown(bucket)
                 IN bucket # <<>> =>
                      /\ lines[at] = LabelLine(category)
                      /\ c > 1 => lines[at - 1] = <<>>
                      /\ \A k \in 1..Shown(bucket) :
                           lines[at + k] = Render(category, bucket[k])

\* a bucket of six items was rendered as its first five, next to an empty
\* bucket and a bucket of fewer than five items
C11_Witness ==
  /\ IsCall("_create_context") /\ Returned
  /\ Len(call.arg.techniques) = 6
  /\ call.arg.papers = <<>>
  /\ Len(call.arg.results) = 2
  /\ Len(call.arg.applications) = 5
  /\ Len(Split(result.value)) = 2 + 5 + 2 + 5 + 2 + 2

\* all four buckets were empty and the sentinel came back
C11_WitnessSentinel ==
  /\ IsCall("_create_context") /\ Returned
  /\ \A c \in 1..4 : call.arg[Categories[c]] = <<>>
  /\ result.value = NoRelevantInformation

-----------------------------------------------------------------------------
(* query.py: query_with_llm, the results file and the interactive loop *)

\* Bound: the turns of the loop of one session.
MaxReads == 3

RECURSIVE StripStr(_)
\* str.strip() on a line of input
StripStr(s) ==
  IF s = <<>> THEN <<>>
  ELSE IF Head(s) = " " THEN StripStr(Tail(s))
  ELSE IF s[Len(s)] = " " THEN StripStr(SubSeq(s, 1, Len(s) - 1))
  ELSE s

\* ['exit', 'quit', 'q']
ExitList == <<<<"e", "x", "i", "t">>, <<"q", "u", "i", "t">>, <<"q">>>>

\* variant (not the code): the exit commands are recognised in lower case only
IsExitCommandExact(user_query) == InList(user_query, ExitList)

\* user_query.lower() in ['exit', 'quit', 'q']
IsExitCommand(user_query) == InList(Lower(user_query), ExitList)

ErrorGeneratingResponse == <<"E", "r", "r", "o", "r", " ", "g", "e", "n", "e", "r", "a", "t", "i", "n", "g", " ", "r", "e", "s", "p", "o", "n", "s", "e", ":", " ">>

\* query_with_llm(user_query): `reply` is what the chat completion call does,
\* return a content or raise; an exception of the two helpers is not caught
query_with_llm(papers_data, user_query, reply) ==
  LET relevant_info == _extract_relevant_info(papers_data, user_query) IN
  IF relevant_info.raised # "none" THEN [raised |-> relevant_info.raised, value |-> <<>>]
  ELSE LET context == _create_context(relevant_info) IN
       IF context.raised # "none" THEN [raised |-> context.raised, value |-> <<>>]
       ELSE [raised |-> "none",
             value |-> IF "content" \in DOMAIN reply THEN reply.content
                       ELSE ErrorGeneratingResponse \o reply.exception]

\* load_results(): json.load's value, [] for a missing file or a JSONDecodeError
load_results(f) ==
  IF "doc" \in DOMAIN f THEN f.doc ELSE [arr |-> <<>>]

\* save_results(results): the file holds the document json.dump wrote
save_results(results) == [doc |-> results]

\* What the chat completion call can do.
Replies == {[content |-> <<"o", "k">>], [exception |-> <<"b", "o", "o", "m">>]}

\* What datetime.now().isoformat() can give.
Timestamps == {"t1", "t2"}

InputLines ==
  {<<>>, <<" ">>, <<"e", "x", "i", "t">>, <<"Q", "u", "i", "t">>, <<" ", "Q", " ">>,
   <<"x">>, <<" ", "b", "l", "e", "u", " ">>, <<"a", " ", "m", "o", "d", "e", "l">>}

OldEntry ==
  [obj |-> [timestamp |-> "t0", query |-> <<"o", "l", "d">>, answer |-> <<"o", "k">>,
            graph_stats |-> get_graph_statistics(NoKg)]]

ResultFiles ==
  {NoFile, [garbage |-> TRUE],
   [doc |-> [arr |-> <<>>]], [doc |-> [arr |-> <<OldEntry, [num |-> 7]>>]],
   [doc |-> [obj |-> <<>>]], [doc |-> [num |-> 7]]}

InteractiveFiles ==
  {NoFile, [content |-> <<"7">>],
   save_ontologies(<<[obj |-> Members.qGnmt], [obj |-> Members.qAttn], [obj |-> Members.qBert]>>),
   save_ontologies(<<[obj |-> Members.qGnmt], [obj |-> Members.qNoTitle]>>)}

\* Before interactive_query is called.
InitI ==
  /\ file \in InteractiveFiles
  /\ run = None
  /\ kg = NoKg
  /\ loaded = None
  /\ stats = None
  /\ call = None
  /\ result = None
  /\ results_file \in ResultFiles
  /\ session = NoSession

\* interactive_query up to its loop: construct the knowledge graph, take the
\* statistics, load the results and print their number.
OpenInteractive ==
  /\ session.at = "absent"
  /\ kg' = KnowledgeGraphQuery(file)
  /\ loaded' = [from |-> file, ontologies |-> ParsedOntologies(file)]
  /\ stats' = IF kg'.status = "ready" THEN get_graph_statistics(kg') ELSE None
  /\ session' =
       IF kg'.status # "ready" THEN [at |-> "aborted", error |-> kg'.error]
       ELSE LET results == load_results(results_file) IN
            IF "num" \in DOMAIN results THEN [at |-> "aborted", error |-> "TypeError"]
            ELSE [at |-> "loop", results |-> results, out |-> <<>>, last |-> None]
  /\ UNCHANGED <<file, run, call, result, results_file>>

\* what a turn leaves in `last`
TurnRecord(line, outcome, issued, query, answered, answer, error) ==
  [line |-> line, outcome |-> outcome, issued |-> issued, query |-> query,
   answered |-> answered, answer |-> answer, error |-> error]

\* One turn of the loop on a line of input.
Turn(line, reply, now) ==
  /\ session.at = "loop"
  /\ Len(session.out) < MaxReads
  /\ LET user_query == StripStr(line) IN
     IF IsExitCommand(user_query)
     THEN /\ session' = [session EXCEPT
                           !.at = "ended", !.out = Append(@, "exit"),
                           !.last = TurnRecord(line, "exit", FALSE, <<>>, FALSE, <<>>, "none")]
          /\ UNCHANGED results_file
     ELSE IF user_query = <<>>
     THEN /\ session' = [session EXCEPT
                           !.out = Append(@, "rejected"),
                           !.last = TurnRecord(line, "rejected", FALSE, <<>>, FALSE, <<>>, "none")]
          /\ UNCHANGED results_file
     ELSE LET llm_response == query_with_llm(kg.papers_data, user_query, reply) IN
          IF llm_response.raised # "none"
          THEN /\ session' = [session EXCEPT
                                !.out = Append(@, "error"),
                                !.last = TurnRecord(line, "error", TRUE, user_query, FALSE, <<>>,
                                                    llm_response.raised)]
               /\ UNCHANGED results_file
          ELSE IF "arr" \notin DOMAIN session.results
          THEN /\ session' = [session EXCEPT
                                !.out = Append(@, "error"),
                                !.last = TurnRecord(line, "error", TRUE, user_query, TRUE,
                                                    llm_response.value, "AttributeError")]
               /\ UNCHANGED results_file
          ELSE LET result_entry == [obj |-> [timestamp |-> now, query |-> user_query,
                                             answer |-> llm_response.value,
                                             graph_stats |-> stats]]
                   results == [arr |-> Append(session.results.arr, result_entry)]
               IN /\ session' = [session EXCEPT
                                   !.results = results, !.out = Append(@, "saved"),
                                   !.last = TurnRecord(line, "saved", TRUE, user_query, TRUE,
                                                       llm_response.value, "none")]
                  /\ results_file' = save_results(results)
  /\ UNCHANGED <<file, run, kg, loaded, stats, call, result>>

\* input() raises EOFError: caught by `except Exception`, the loop goes on.
EndOfInput ==
  /\ session.at = "loop"
  /\ Len(session.out) < MaxReads
  /\ session' = [session EXCEPT !.out = Append(@, "error"), !.last = [eof |-> TRUE]]
  /\ UNCHANGED <<file, run, kg, loaded, stats, call, result, results_file>>

\* KeyboardInterrupt at the prompt: the loop ends.
Interrupt ==
  /\ session.at = "loop"
  /\ session' = [session EXCEPT !.at = "ended", !.last = [interrupt |-> TRUE]]
  /\ UNCHANGED <<file, run, kg, loaded, stats, call, result, results_file>>

NextI ==
  \/ OpenInteractive
  \/ \E line \in InputLines, reply \in Replies, now \in Timestamps : Turn(line, reply, now)
  \/ EndOfInput
  \/ Interrupt

ISpec == InitI /\ [][NextI]_vars

-----------------------------------------------------------------------------
(* The interactive loop: claims C12, C13 *)

ExitWords == {ExitList[i] : i \in 1..Len(ExitList)}

IsBlank(line) == \A i \in 1..Len(line) : line[i] = " "

\* the line with the spaces before its first and after its last other character removed
Trimmed(line) ==
  IF IsBlank(line) THEN <<>>
  ELSE LET first == CHOOSE i \in 1..Len(line) :
                      line[i] # " " /\ \A k \in 1..(i - 1) : line[k] = " "
           last == CHOOSE j \in 1..Len(line) :
                     line[j] # " " /\ \A k \in (j + 1)..Len(line) : line[k] = " "
       IN SubSeq(line, first, last)

\* this step is a turn of the loop on a line of input
TurnTaken ==
  /\ session.at = "loop"
  /\ Len(session'.out) = Len(session.out) + 1
  /\ "line" \in DOMAIN session'.last

NothingSaved == results_file' = results_file /\ session'.results = session.results

\* C12 as stated: a line equal to an exit word in any letter case ends the
\* loop, an empty or whitespace-only line is rejected with nothing issued or
\* saved, any other line is issued as a query, and a turn that ends in a
\* caught exception leaves the loop reading.
C12_InteractiveLoopAsStated ==
  [][TurnTaken =>
       LET line == session'.last.line
           turn == session'.last
       IN /\ Lower(line) \in ExitWords => session'.at = "ended"
          /\ IsBlank(line) =>
               /\ turn.outcome = "rejected" /\ ~turn.issued
               /\ NothingSaved /\ session'.at = "loop"
          /\ (Lower(line) \notin ExitWords /\ ~IsBlank(line)) => turn.issued
          /\ turn.outcome = "error" => session'.at = "loop"]_vars

\* C12: with the whitespace around it removed, a line equal to an exit word
\* in any letter case ends the loop and no other line does; a line that is
\* then empty is rejected with nothing issued or saved and the loop reads on;
\* any other line is issued, so trimmed, as a query; and a turn that ends in
\* a caught exception saves nothing and leaves the loop reading.
C12_InteractiveLoop ==
  [][TurnTaken =>
       LET line == Trimmed(session'.last.line)
           turn == session'.last
       IN /\ Lower(line) \in ExitWords <=> session'.at = "ended"
          /\ Lower(line) \in ExitWords =>
               turn.outcome = "exit" /\ ~turn.issued /\ NothingSaved
          /\ line = <<>> =>
               /\ turn.outcome = "rejected" /\ ~turn.issued
               /\ NothingSaved /\ session'.at = "loop"
          /\ (Lower(line) \notin ExitWords /\ line # <<>>) =>
               /\ turn.issued /\ turn.query = line
               /\ turn.outcome \in {"saved", "error"}
          /\ turn.outcome = "error" =>
               /\ turn.error # "none"
               /\ NothingSaved /\ session'.at = "loop"]_vars

\* a query raised, the loop went on to reject a blank line, and an exit word
\* in capitals between spaces ended it
C12_Witness ==
  /\ session.at = "ended"
  /\ session.out = <<"error", "rejected", "exit">>
  /\ session.last.line # Trimmed(session.last.line)
  /\ Lower(session.last.line) \notin ExitWords

\* the entries the results file holds
Entries(f) ==
  IF "doc" \in DOMAIN f /\ "arr" \in DOMAIN f.doc THEN f.doc.arr ELSE <<>>

IsEntryOf(entry, turn) ==
  /\ "obj" \in DOMAIN entry
  /\ DOMAIN entry.obj = {"timestamp", "query", "answer", "graph_stats"}
  /\ entry.obj.timestamp \in Timestamps
  /\ entry.obj.query = turn.query
  /\ entry.obj.answer = turn.answer
  /\ entry.obj.graph_stats = stats

\* C13 as stated: whatever the results file held, every answered query
\* leaves the file holding a JSON array that is the entries it held before,
\* unchanged and in order, followed by one entry for the query, with the
\* failure string as the answer when the LLM call failed.
C13_ResultsAppendOnly ==
  [][(TurnTaken /\ session'.last.answered) =>
       /\ "doc" \in DOMAIN results_file' /\ "arr" \in DOMAIN results_file'.doc
       /\ Len(Entries(results_file')) = Len(Entries(results_file)) + 1
       /\ SubSeq(Entries(results_file'), 1, Len(Entries(results_file)))
            = Entries(results_file)
       /\ IsEntryOf(Entries(results_file')[Len(Entries(results_file'))],
                    session'.last)]_vars

\* the part of C13 the code keeps: when the results file was missing, no
\* JSON, or a JSON array, every answered query is appended as stated
C13_AppendOnlyFromArray ==
  [][(TurnTaken /\ session'.last.answered /\ "arr" \in DOMAIN session.results) =>
       /\ "doc" \in DOMAIN results_file' /\ "arr" \in DOMAIN results_file'.doc
       /\ Entries(results_file') = Append(session.results.arr,
                                           Entries(results_file')[Len(Entries(results_file'))])
       /\ (session.out # <<>> \/ "doc" \in DOMAIN results_file) =>
             session.results.arr = Entries(results_file)
       /\ IsEntryOf(Entries(results_file')[Len(Entries(results_file'))],
                    session'.last)]_vars

\* the results file held a JSON object: a query was answered and came to
\* nothing in the file
C13_Lost ==
  /\ session.at = "loop"
  /\ "answered" \in DOMAIN session.last /\ session.last.answered
  /\ session.last.error = "AttributeError"
  /\ Entries(results_file) = <<>>

\* two queries were answered on a file of two entries, one with the failure
\* string, and the file holds the four entries
C13_Witness ==
  /\ session.at = "loop"
  /\ session.out = <<"saved", "saved">>
  /\ Len(Entries(results_file)) = 4
  /\ Entries(results_file)[1] = OldEntry
  /\ \E i \in 3..4 :
       Entries(results_file)[i].obj.answer = ErrorGeneratingResponse \o <<"b", "o", "o", "m">>

====
